---- MODULE Spec2Model ----
(***************************************************************************)
(* Model of CrosswordGame (src/src/crossword.ts, first class, lines        *)
(* 17-767): the grid built from a word template, the player's inputs, the  *)
(* completed words, the current word, DOM focus among the cell inputs and  *)
(* the 100ms focus timers started by moveToNextCell.                        *)
(*                                                                         *)
(* Cells are pairs <<x, y>>.  A word is identified by its index in         *)
(* this.words (the code compares Word objects by identity); 0 stands for   *)
(* currentWord === null.  A text is a sequence of one-character strings.   *)
(* The class lists of the cells and clues (shake, word-complete,           *)
(* highlighted, completed) and the 500ms / 1000ms timers that only remove  *)
(* a class are not part of the state; style.color of the inputs is.        *)
(***************************************************************************)
EXTENDS Integers, Sequences, FiniteSets, TLC

\* ------------------------------------------------------------------------
\* Bounds of the model
\* ------------------------------------------------------------------------

\* at most this many 100ms focus timers are pending at once
MaxPending == 1

\* clue numbers that selectWordByNumber is called with: 1..MaxClueNumber
MaxClueNumber == 3

\* what the player can type into a cell (one character, maxLength = 1)
Keys == {"A", "B", "a"}

\* ------------------------------------------------------------------------
\* Templates handed to the constructor (the WORDS_TEMPLATE argument)
\* ------------------------------------------------------------------------

Wd(t, c, x, y, d, n) ==
  [text |-> t, clue |-> c, startX |-> x, startY |-> y, direction |-> d, number |-> n]

\* 1: an across and a down word sharing their start cell, one blocked cell
\* 2: two one-letter words with a blocked cell between them
\* 3: an across word running off the right edge of the grid, and a word
\*    that lies wholly to the right of the grid
\* 4: a down word running off the bottom edge, listed before an across word
\* 5: a word given in lowercase
\* 6: two words that disagree on the letter of their shared cell
\* 7: one three-letter across word filling the grid
\* 8: the empty word list
Templates == <<
  [columns |-> 2, rows |-> 2,
   words |-> << Wd(<<"A", "B">>, "c1", 0, 0, "across", 1),
                Wd(<<"A", "B">>, "c2", 0, 0, "down", 2) >>],
  [columns |-> 3, rows |-> 1,
   words |-> << Wd(<<"A">>, "c1", 0, 0, "across", 1),
                Wd(<<"B">>, "c2", 2, 0, "across", 2) >>],
  [columns |-> 2, rows |-> 1,
   words |-> << Wd(<<"A", "B", "A">>, "c1", 0, 0, "across", 1),
                Wd(<<"B">>, "c2", 2, 0, "across", 2) >>],
  [columns |-> 2, rows |-> 1,
   words |-> << Wd(<<"A", "B">>, "c1", 1, 0, "down", 1),
                Wd(<<"B", "A">>, "c2", 0, 0, "across", 2) >>],
  [columns |-> 2, rows |-> 1,
   words |-> << Wd(<<"a", "b">>, "c1", 0, 0, "across", 1) >>],
  [columns |-> 2, rows |-> 2,
   words |-> << Wd(<<"A", "B">>, "c1", 0, 0, "across", 1),
                Wd(<<"B", "A">>, "c2", 0, 0, "down", 2) >>],
  [columns |-> 3, rows |-> 1,
   words |-> << Wd(<<"A", "B", "A">>, "c1", 0, 0, "across", 1) >>],
  [columns |-> 1, rows |-> 1,
   words |-> << >>]
>>

\* ------------------------------------------------------------------------
\* State
\* ------------------------------------------------------------------------

VARIABLES
  tpl,            \* index of the template the constructor was given
  words,          \* this.words
  grid,           \* this.grid: grid[y][x] is a letter or NULL
  gridSize,       \* this.gridSize (columns)
  gridHeight,     \* this.gridHeight (rows)
  currentWord,    \* this.currentWord (index into words, 0 = null)
  completedWords, \* this.completedWords
  userInputs,     \* this.userInputs: a map whose keys are cells
  inputValue,     \* value of the <input> of each occupied cell
  color,          \* style.color of the <input> of each occupied cell
  focus,          \* the cell whose <input> has DOM focus, or NoCell
  pending,        \* targets of the pending 100ms focus timers, oldest first
  reported,       \* word numbers marked completed by the last handler
  threw,          \* the last handler was aborted by a TypeError
  evaluated,      \* the last handler called checkWordCompletion
  last,           \* the event handled last: its kind and the key or value
  completedBefore, \* history: the numbers that were completed at a confirmed reset
  shake,          \* the cells whose <input> has the class "shake"
  wordComplete,   \* the cells whose <div> has the class "word-complete"
  containers,     \* the container elements the document has at construction
  attached,       \* renderGrid and renderClues ran: the listeners are attached
  diagnostics     \* the console.error messages of the constructor, in order

vars == << tpl, words, grid, gridSize, gridHeight, currentWord, completedWords,
           userInputs, inputValue, color, focus, pending, reported, threw,
           evaluated, last,
           completedBefore, shake, wordComplete, containers, attached,
           diagnostics >>

NULL == "null"
UNDEFINED == "undefined"
TYPEERROR == "TypeError"
NoCell == << -1, -1 >>
Event(op, key) == [op |-> op, key |-> key]

\* ------------------------------------------------------------------------
\* Pure helpers
\* ------------------------------------------------------------------------

\* String.prototype.toUpperCase on the characters the player can type
toUpperCase(s) ==
  CASE s = "a" -> "A"
    [] s = "b" -> "B"
    [] OTHER -> s

\* x coordinate of letter i (0-based) of a word
WordX(word, i) == IF word.direction = "across" THEN word.startX + i ELSE word.startX

\* y coordinate of letter i (0-based) of a word
WordY(word, i) == IF word.direction = "across" THEN word.startY ELSE word.startY + i

\* the cells of a word's span, in span order
Span(word) == [k \in 1..Len(word.text) |-> << WordX(word, k - 1), WordY(word, k - 1) >>]

\* initializeGrid: rows x columns of NULL
initializeGrid(cols, rows) == [y \in 0..(rows - 1) |-> [x \in 0..(cols - 1) |-> NULL]]

RECURSIVE PlaceLettersButLast(_, _, _, _, _)
\* variant of the inner loop of placeWordsInGrid that stops one letter early
PlaceLettersButLast(g, cols, rows, word, i) ==
  IF i >= Len(word.text) - 1 THEN g
  ELSE LET x == WordX(word, i)
           y == WordY(word, i)
           g2 == IF x < cols /\ y < rows
                   THEN [g EXCEPT ![y][x] = word.text[i + 1]]
                   ELSE g
       IN PlaceLettersButLast(g2, cols, rows, word, i + 1)

RECURSIVE PlaceLetters(_, _, _, _, _)
\* inner loop of placeWordsInGrid, from letter i on
PlaceLetters(g, cols, rows, word, i) ==
  IF i >= Len(word.text) THEN g
  ELSE LET x == WordX(word, i)
           y == WordY(word, i)
           g2 == IF x < cols /\ y < rows
                   THEN [g EXCEPT ![y][x] = word.text[i + 1]]
                   ELSE g
       IN PlaceLetters(g2, cols, rows, word, i + 1)

RECURSIVE PlaceWords(_, _, _, _, _)
\* outer loop of placeWordsInGrid, from word w on
PlaceWords(g, cols, rows, ws, w) ==
  IF w > Len(ws) THEN g
  ELSE PlaceWords(PlaceLetters(g, cols, rows, ws[w], 0), cols, rows, ws, w + 1)

\* the grid the constructor builds for a template
placeWordsInGrid(t) ==
  PlaceWords(initializeGrid(t.columns, t.rows), t.columns, t.rows, t.words, 1)

\* the JavaScript read this.grid[y][x]: a missing row raises a TypeError, a
\* missing column of an existing row reads undefined
GridRead(g, x, y) ==
  IF y \notin DOMAIN g THEN TYPEERROR
  ELSE IF x \notin DOMAIN g[y] THEN UNDEFINED
  ELSE g[y][x]

\* cell number k (0-based) of the row-major walk "for y ... for x ..."
CellAt(cols, k) == << k % cols, k \div cols >>

\* the cells that got an <input> in renderGrid
Occupied(g, cols, rows) ==
  { c \in (0..(cols - 1)) \X (0..(rows - 1)) : g[c[2]][c[1]] # NULL }

\* document.querySelectorAll(".cell input"): the inputs in document order,
\* which is the order renderGrid created them in
Inputs(g, cols, rows) ==
  SelectSeq([k \in 1..(cols * rows) |-> CellAt(cols, k - 1)],
            LAMBDA c : g[c[2]][c[1]] # NULL)

\* the inputIndex the row-major loops have counted when they reach (tx, ty)
InputIndex(g, cols, tx, ty) ==
  Cardinality({ k \in 0..(ty * cols + tx - 1) :
                  g[CellAt(cols, k)[2]][CellAt(cols, k)[1]] # NULL })

\* the loop shared by focusOnCell, moveToNextCell and selectWordByNumber:
\* the <input> found for (tx, ty), or NoCell when the loops end without one
FindInput(g, cols, rows, tx, ty) ==
  IF tx \in 0..(cols - 1) /\ ty \in 0..(rows - 1) /\ g[ty][tx] # NULL
    THEN LET idx == InputIndex(g, cols, tx, ty)
             all == Inputs(g, cols, rows)
         IN IF idx + 1 \in DOMAIN all THEN all[idx + 1] ELSE NoCell
    ELSE NoCell

\* this.userInputs.get(key) || ""
GetInput(ui, x, y) == IF << x, y >> \in DOMAIN ui THEN ui[<< x, y >>] ELSE ""

\* variant of the set that builds the key with the coordinates swapped
SetInputSwapped(ui, x, y, v) ==
  [c \in DOMAIN ui \cup {<< y, x >>} |-> IF c = << y, x >> THEN v ELSE ui[c]]

\* this.userInputs.set(key, value)
SetInput(ui, x, y, v) ==
  [c \in DOMAIN ui \cup {<< x, y >>} |-> IF c = << x, y >> THEN v ELSE ui[c]]

\* position of (x, y) in a word's span (0-based), -1 when it is not in it
PositionIn(word, x, y) ==
  LET hits == { i \in 0..(Len(word.text) - 1) : WordX(word, i) = x /\ WordY(word, i) = y }
  IN IF hits = {} THEN -1 ELSE CHOOSE i \in hits : \A j \in hits : i <= j

\* containingWords of highlightCurrentWord, as indices in list order
ContainingWords(ws, x, y) ==
  SelectSeq([w \in 1..Len(ws) |-> w], LAMBDA w : PositionIn(ws[w], x, y) # -1)

\* variant of highlightCurrentWord that always takes the first containing word
highlightFirstContaining(ws, cw, x, y) ==
  LET containingWords == ContainingWords(ws, x, y)
  IN IF Len(containingWords) > 0 THEN containingWords[1] ELSE cw

\* highlightCurrentWord: the new value of this.currentWord
highlightCurrentWord(ws, cw, x, y) ==
  LET containingWords == ContainingWords(ws, x, y)
  IN IF Len(containingWords) > 0
       THEN IF cw # 0 /\ \E i \in DOMAIN containingWords : containingWords[i] = cw
              THEN cw
              ELSE containingWords[1]
       ELSE cw

\* variant of input.focus() whose focus event does not reach
\* highlightCurrentWord
FocusInputKeepsWord(ws, fc, cw, target) ==
  IF target = NoCell \/ target = fc
    THEN [focus |-> fc, currentWord |-> cw]
    ELSE [focus |-> target, currentWord |-> cw]

\* input.focus(): a focus event (and highlightCurrentWord) only when the
\* input did not have focus already; NoCell means no input was found
FocusInput(ws, fc, cw, target) ==
  IF target = NoCell \/ target = fc
    THEN [focus |-> fc, currentWord |-> cw]
    ELSE [focus |-> target,
          currentWord |-> highlightCurrentWord(ws, cw, target[1], target[2])]

RECURSIVE ScanWord(_, _, _, _, _)
\* the letter loop of checkWordCompletion, from letter i on
ScanWord(g, ui, word, i, userWord) ==
  IF i >= Len(word.text)
    THEN [isComplete |-> TRUE, userWord |-> userWord, threw |-> FALSE]
    ELSE LET x == WordX(word, i)
             y == WordY(word, i)
             userInput == GetInput(ui, x, y)
             correctLetter == GridRead(g, x, y)
         IN IF correctLetter = TYPEERROR
              THEN [isComplete |-> FALSE, userWord |-> userWord, threw |-> TRUE]
            ELSE IF userInput # correctLetter
              THEN [isComplete |-> FALSE, userWord |-> userWord, threw |-> FALSE]
            ELSE ScanWord(g, ui, word, i + 1, Append(userWord, userInput))

RECURSIVE CheckWordsUntilFirst(_, _, _, _, _, _)
\* variant of the word loop that returns after the first word it completes
CheckWordsUntilFirst(g, ws, ui, w, completed, rep) ==
  IF w > Len(ws)
    THEN [completedWords |-> completed, reported |-> rep, threw |-> FALSE]
    ELSE LET r == ScanWord(g, ui, ws[w], 0, << >>)
         IN IF r.threw
              THEN [completedWords |-> completed, reported |-> rep, threw |-> TRUE]
            ELSE IF r.isComplete /\ r.userWord = ws[w].text
                                 /\ ws[w].number \notin completed
              THEN [completedWords |-> completed \cup {ws[w].number},
                    reported |-> Append(rep, ws[w].number), threw |-> FALSE]
            ELSE CheckWordsUntilFirst(g, ws, ui, w + 1, completed, rep)

RECURSIVE CheckWordsLettersOnly(_, _, _, _, _, _)
\* variant of the word loop without the comparison of the whole string
CheckWordsLettersOnly(g, ws, ui, w, completed, rep) ==
  IF w > Len(ws)
    THEN [completedWords |-> completed, reported |-> rep, threw |-> FALSE]
    ELSE LET r == ScanWord(g, ui, ws[w], 0, << >>)
         IN IF r.threw
              THEN [completedWords |-> completed, reported |-> rep, threw |-> TRUE]
            ELSE IF r.isComplete /\ ws[w].number \notin completed
              THEN CheckWordsLettersOnly(g, ws, ui, w + 1,
                                         completed \cup {ws[w].number},
                                         Append(rep, ws[w].number))
            ELSE CheckWordsLettersOnly(g, ws, ui, w + 1, completed, rep)

RECURSIVE CheckWords(_, _, _, _, _, _)
\* the word loop of checkWordCompletion, from word w on
CheckWords(g, ws, ui, w, completed, rep) ==
  IF w > Len(ws)
    THEN [completedWords |-> completed, reported |-> rep, threw |-> FALSE]
    ELSE LET r == ScanWord(g, ui, ws[w], 0, << >>)
         IN IF r.threw
              THEN [completedWords |-> completed, reported |-> rep, threw |-> TRUE]
            ELSE IF r.isComplete /\ r.userWord = ws[w].text
                                 /\ ws[w].number \notin completed
              THEN CheckWords(g, ws, ui, w + 1, completed \cup {ws[w].number},
                              Append(rep, ws[w].number))
            ELSE CheckWords(g, ws, ui, w + 1, completed, rep)

\* variant of checkWordCompletion that rebuilds the set on every evaluation
checkWordCompletionRebuild(g, ws, ui, completed) == CheckWords(g, ws, ui, 1, {}, << >>)

\* checkWordCompletion
checkWordCompletion(g, ws, ui, completed) == CheckWords(g, ws, ui, 1, completed, << >>)

\* variant of moveToNextCell that wraps from the last letter to the first
moveToNextCellWraps(g, cols, rows, ws, cw, x, y) ==
  IF cw = 0 THEN NoCell
  ELSE LET currentPosition == PositionIn(ws[cw], x, y)
           nextPosition == (currentPosition + 1) % Len(ws[cw].text)
       IN IF currentPosition # -1
            THEN FindInput(g, cols, rows, WordX(ws[cw], nextPosition),
                           WordY(ws[cw], nextPosition))
            ELSE NoCell

\* moveToNextCell: the input its timer will focus, or NoCell
moveToNextCell(g, cols, rows, ws, cw, x, y) ==
  IF cw = 0 THEN NoCell
  ELSE LET currentPosition == PositionIn(ws[cw], x, y)
       IN IF currentPosition # -1 /\ currentPosition < Len(ws[cw].text) - 1
            THEN FindInput(g, cols, rows, WordX(ws[cw], currentPosition + 1),
                           WordY(ws[cw], currentPosition + 1))
            ELSE NoCell

\* variant of moveToPreviousCell that wraps from the first letter to the last
moveToPreviousCellWraps(g, cols, rows, ws, cw, x, y) ==
  IF cw = 0 THEN NoCell
  ELSE LET currentPosition == PositionIn(ws[cw], x, y)
           prevPosition == (currentPosition - 1) % Len(ws[cw].text)
       IN IF currentPosition >= 0
            THEN FindInput(g, cols, rows, WordX(ws[cw], prevPosition),
                           WordY(ws[cw], prevPosition))
            ELSE NoCell

\* moveToPreviousCell: the input it focuses, or NoCell
moveToPreviousCell(g, cols, rows, ws, cw, x, y) ==
  IF cw = 0 THEN NoCell
  ELSE LET currentPosition == PositionIn(ws[cw], x, y)
       IN IF currentPosition > 0
            THEN FindInput(g, cols, rows, WordX(ws[cw], currentPosition - 1),
                           WordY(ws[cw], currentPosition - 1))
            ELSE NoCell

Max(a, b) == IF a >= b THEN a ELSE b
Min(a, b) == IF a <= b THEN a ELSE b

\* variant of the switch of navigateWithArrows without Math.max / Math.min
ArrowTargetUnclamped(cols, rows, key, x, y) ==
  CASE key = "ArrowLeft"  -> << x - 1, y >>
    [] key = "ArrowRight" -> << x + 1, y >>
    [] key = "ArrowUp"    -> << x, y - 1 >>
    [] key = "ArrowDown"  -> << x, y + 1 >>
    [] OTHER -> << x, y >>

\* the switch of navigateWithArrows: the target cell
ArrowTarget(cols, rows, key, x, y) ==
  CASE key = "ArrowLeft"  -> << Max(0, x - 1), y >>
    [] key = "ArrowRight" -> << Min(cols - 1, x + 1), y >>
    [] key = "ArrowUp"    -> << x, Max(0, y - 1) >>
    [] key = "ArrowDown"  -> << x, Min(rows - 1, y + 1) >>
    [] OTHER -> << x, y >>

\* navigateWithArrows: the input it focuses (NoCell when it focuses none),
\* and whether the read of this.grid[targetY][targetX] raised
navigateWithArrows(g, cols, rows, key, x, y) ==
  LET t == ArrowTarget(cols, rows, key, x, y)
      read == GridRead(g, t[1], t[2])
  IN IF read = TYPEERROR THEN [target |-> NoCell, threw |-> TRUE]
     ELSE IF read # NULL
       THEN [target |-> FindInput(g, cols, rows, t[1], t[2]), threw |-> FALSE]
       ELSE [target |-> NoCell, threw |-> FALSE]

\* selectWordByNumber: index of the first word with that number, 0 if none
WordByNumber(ws, n) ==
  LET hits == { i \in 1..Len(ws) : ws[i].number = n }
  IN IF hits = {} THEN 0 ELSE CHOOSE i \in hits : \A j \in hits : i <= j

\* animateWordCompletion for the words just reported: the cells that get the
\* class "word-complete" (each with a 1000ms timer that removes it)
animateWordCompletion(cols, rows, ws, rep) ==
  { c \in (0..(cols - 1)) \X (0..(rows - 1)) :
      \E r \in DOMAIN rep : \E w \in 1..Len(ws) :
        /\ ws[w].number = rep[r]
        /\ PositionIn(ws[w], c[1], c[2]) >= 0 }

\* ------------------------------------------------------------------------
\* Initial state: the constructor
\* ------------------------------------------------------------------------

\* the three elements the constructor looks up with getElementById
Containers == {"crossword-grid", "across-clues", "down-clues"}

\* the constructor, for template t in a document that has the containers
\* in present: the fields it leaves, whether it rendered, what it logged.
\* gridSize, gridHeight and words are assigned before the containers are
\* looked up; this.grid keeps its initializer [] until initializeGrid runs
constructor(t, present) ==
  LET missing(m) == [words |-> t.words, gridSize |-> t.columns,
                     gridHeight |-> t.rows, grid |-> << >>,
                     attached |-> FALSE, diagnostics |-> << m >>]
  IN IF "crossword-grid" \notin present
       THEN missing("Element 'crossword-grid' not found!")
     ELSE IF "across-clues" \notin present
       THEN missing("Element 'across-clues' not found!")
     ELSE IF "down-clues" \notin present
       THEN missing("Element 'down-clues' not found!")
     ELSE [words |-> t.words, gridSize |-> t.columns, gridHeight |-> t.rows,
           grid |-> placeWordsInGrid(t), attached |-> TRUE,
           diagnostics |-> << >>]

\* the state after new CrosswordGame(Templates[tpl]) in a document that has
\* the containers in present
Constructed(present) ==
  /\ tpl \in 1..Len(Templates)
  /\ containers = present
  /\ LET c == constructor(Templates[tpl], present)
         inputs == IF c.attached
                     THEN Occupied(c.grid, c.gridSize, c.gridHeight)
                     ELSE {}
     IN /\ words = c.words
        /\ gridSize = c.gridSize
        /\ gridHeight = c.gridHeight
        /\ grid = c.grid
        /\ attached = c.attached
        /\ diagnostics = c.diagnostics
        /\ inputValue = [i \in inputs |-> ""]
        /\ color = [i \in inputs |-> "#333"]
  /\ currentWord = 0
  /\ completedWords = {}
  /\ userInputs = << >>
  /\ focus = NoCell
  /\ pending = << >>
  /\ reported = << >>
  /\ threw = FALSE
  /\ evaluated = FALSE
  /\ last = Event("construct", "")
  /\ completedBefore = {}
  /\ shake = {}
  /\ wordComplete = {}

\* construction in a document that has the three containers
Init == Constructed(Containers)

\* construction in any document
AnyDocumentInit == \E present \in SUBSET Containers : Constructed(present)

Static == << tpl, words, grid, gridSize, gridHeight, containers, attached,
            diagnostics >>

\* the class lists that the delayed callbacks clear
Classes == << shake, wordComplete >>

\* ------------------------------------------------------------------------
\* Event handlers
\* ------------------------------------------------------------------------

\* what the handlers that evaluate nothing, so report nothing and raise
\* nothing, leave behind
Quiet == reported' = << >> /\ threw' = FALSE /\ evaluated' = FALSE

\* variant of the incorrect-letter branch that moves on as after a correct one
IncorrectLetterAdvances ==
  LET next == moveToNextCell(grid, gridSize, gridHeight, words, currentWord,
                             focus[1], focus[2])
  IN /\ color' = [color EXCEPT ![focus] = "#e74c3c"]
     /\ Quiet
     /\ pending' = IF next = NoCell THEN pending ELSE Append(pending, next)
     /\ Len(pending') <= MaxPending
     /\ shake' = shake \cup {focus}
     /\ UNCHANGED << completedWords, wordComplete >>

\* variant of the incorrect branch that runs the completion evaluation too
IncorrectLetterEvaluates ==
  LET chk == checkWordCompletion(grid, words, userInputs', completedWords)
  IN /\ color' = [color EXCEPT ![focus] = "#e74c3c"]
     /\ shake' = shake \cup {focus}
     /\ completedWords' = chk.completedWords
     /\ reported' = chk.reported
     /\ threw' = chk.threw
     /\ evaluated' = TRUE
     /\ UNCHANGED << pending, wordComplete >>

\* the branch of the input listener for a letter that is not the grid's:
\* red, shake; nothing is evaluated and nothing scheduled that moves focus
IncorrectLetter ==
  /\ color' = [color EXCEPT ![focus] = "#e74c3c"]
  /\ shake' = shake \cup {focus}
  /\ Quiet
  /\ UNCHANGED << completedWords, pending, wordComplete >>

\* the "input" listener of the cell that has focus, for the raw value k;
\* op names the event that produced the value
InputHandler(op, k) ==
  LET x == focus[1]
      y == focus[2]
      value == toUpperCase(k)
      ui == SetInput(userInputs, x, y, value)
  IN /\ inputValue' = [inputValue EXCEPT ![focus] = value]
     /\ userInputs' = ui
     /\ IF value = grid[y][x]
          THEN LET chk == checkWordCompletion(grid, words, ui, completedWords)
                   next == moveToNextCell(grid, gridSize, gridHeight, words,
                                          currentWord, x, y)
               IN /\ color' = [color EXCEPT ![focus] = "#27ae60"]
                  /\ shake' = shake \ {focus}
                  /\ wordComplete' = wordComplete
                                       \cup animateWordCompletion(gridSize, gridHeight,
                                                                  words, chk.reported)
                  /\ completedWords' = chk.completedWords
                  /\ reported' = chk.reported
                  /\ threw' = chk.threw
                  /\ evaluated' = TRUE
                  /\ pending' = IF chk.threw \/ next = NoCell
                                  THEN pending
                                  ELSE Append(pending, next)
                  /\ Len(pending') <= MaxPending
          ELSE IF value # ""
            THEN IncorrectLetter
            ELSE /\ color' = [color EXCEPT ![focus] = "#333"]
                 /\ shake' = shake \ {focus}
                 /\ Quiet
                 /\ UNCHANGED << completedWords, pending, wordComplete >>
     /\ last' = Event(op, k)
     /\ UNCHANGED << Static, completedBefore, currentWord, focus >>

\* the player types a character into the focused cell
TypeLetter ==
  /\ focus # NoCell
  /\ \E k \in Keys : InputHandler("input", k)

\* the player empties the focused cell (Delete, cut)
ClearCell ==
  /\ focus # NoCell
  /\ inputValue[focus] # ""
  /\ InputHandler("clear", "")

\* input.focus() on the input of cell target, with currentWord being cw
FocusOn(cw, target) ==
  LET r == FocusInput(words, focus, cw, target)
  IN /\ focus' = r.focus
     /\ currentWord' = r.currentWord

\* variant of Backspace that retreats whatever the cell's value is
BackspaceAlwaysRetreats ==
  /\ focus # NoCell
  /\ FocusOn(currentWord,
             IF currentWord = 0
               THEN NoCell
               ELSE moveToPreviousCell(grid, gridSize, gridHeight, words,
                                       currentWord, focus[1], focus[2]))
  /\ Quiet
  /\ last' = Event("Backspace", "")
  /\ UNCHANGED << Static, completedBefore, Classes, completedWords, userInputs,
                  inputValue, color, pending >>

\* keydown Backspace: on an empty cell with a current word the handler
\* retreats; otherwise the browser deletes the character (an input event)
Backspace ==
  /\ focus # NoCell
  /\ IF inputValue[focus] = "" /\ currentWord # 0
       THEN /\ FocusOn(currentWord,
                       moveToPreviousCell(grid, gridSize, gridHeight, words,
                                          currentWord, focus[1], focus[2]))
            /\ Quiet
            /\ last' = Event("Backspace", "")
            /\ UNCHANGED << Static, completedBefore, Classes, completedWords, userInputs, inputValue,
                            color, pending >>
       ELSE IF inputValue[focus] # ""
         THEN InputHandler("Backspace", "")
         ELSE /\ Quiet
              /\ last' = Event("Backspace", "")
              /\ UNCHANGED << Static, completedBefore, Classes, currentWord, completedWords, userInputs,
                              inputValue, color, focus, pending >>

\* variant of Tab that advances only from a cell holding its correct letter
TabWhenCorrect ==
  /\ focus # NoCell
  /\ LET next == moveToNextCell(grid, gridSize, gridHeight, words, currentWord,
                                focus[1], focus[2])
     IN pending' = IF next = NoCell \/ inputValue[focus] # grid[focus[2]][focus[1]]
                     THEN pending
                     ELSE Append(pending, next)
  /\ Len(pending') <= MaxPending
  /\ Quiet
  /\ last' = Event("Tab", "")
  /\ UNCHANGED << Static, completedBefore, Classes, currentWord, completedWords,
                  userInputs, inputValue, color, focus >>

\* keydown Tab without Shift: moveToNextCell
Tab ==
  /\ focus # NoCell
  /\ LET next == moveToNextCell(grid, gridSize, gridHeight, words, currentWord,
                                focus[1], focus[2])
     IN pending' = IF next = NoCell THEN pending ELSE Append(pending, next)
  /\ Len(pending') <= MaxPending
  /\ Quiet
  /\ last' = Event("Tab", "")
  /\ UNCHANGED << Static, completedBefore, Classes, currentWord, completedWords, userInputs, inputValue,
                  color, focus >>

\* keydown Shift+Tab: moveToPreviousCell
ShiftTab ==
  /\ focus # NoCell
  /\ FocusOn(currentWord,
             moveToPreviousCell(grid, gridSize, gridHeight, words, currentWord,
                                focus[1], focus[2]))
  /\ Quiet
  /\ last' = Event("ShiftTab", "")
  /\ UNCHANGED << Static, completedBefore, Classes, completedWords, userInputs, inputValue, color, pending >>

ArrowKeys == {"ArrowLeft", "ArrowRight", "ArrowUp", "ArrowDown"}

\* keydown of an arrow key: navigateWithArrows
Arrow ==
  /\ focus # NoCell
  /\ \E key \in ArrowKeys :
       LET r == navigateWithArrows(grid, gridSize, gridHeight, key, focus[1], focus[2])
       IN /\ FocusOn(currentWord, r.target)
          /\ threw' = r.threw
          /\ last' = Event("arrow", key)
  /\ reported' = << >>
  /\ evaluated' = FALSE
  /\ UNCHANGED << Static, completedBefore, Classes, completedWords, userInputs, inputValue, color, pending >>

\* the player clicks into another cell's input: its focus listener runs
ClickCell ==
  /\ \E c \in DOMAIN inputValue : c # focus /\ FocusOn(currentWord, c)
  /\ Quiet
  /\ last' = Event("click", "")
  /\ UNCHANGED << Static, completedBefore, Classes, completedWords, userInputs, inputValue, color, pending >>

\* the focused input loses focus to something that is not a cell
Blur ==
  /\ focus # NoCell
  /\ focus' = NoCell
  /\ Quiet
  /\ last' = Event("blur", "")
  /\ UNCHANGED << Static, completedBefore, Classes, currentWord, completedWords, userInputs, inputValue,
                  color, pending >>

\* variant of selectWordByNumber that focuses the start cell without
\* setting currentWord first
ClueSelectFocusOnly ==
  /\ attached
  /\ \E n \in 1..MaxClueNumber :
       LET w == WordByNumber(words, n)
       IN /\ IF w = 0
               THEN UNCHANGED << currentWord, focus >>
               ELSE FocusOn(currentWord,
                            FindInput(grid, gridSize, gridHeight,
                                      words[w].startX, words[w].startY))
          /\ last' = Event("clue", ToString(n))
  /\ Quiet
  /\ UNCHANGED << Static, completedBefore, Classes, completedWords, userInputs,
                  inputValue, color, pending >>

\* selectWordByNumber(n)
ClueSelect ==
  /\ attached
  /\ \E n \in 1..MaxClueNumber :
       LET w == WordByNumber(words, n)
       IN /\ IF w = 0
               THEN UNCHANGED << currentWord, focus >>
               ELSE FocusOn(w, FindInput(grid, gridSize, gridHeight,
                                         words[w].startX, words[w].startY))
          /\ last' = Event("clue", ToString(n))
  /\ Quiet
  /\ UNCHANGED << Static, completedBefore, Classes, completedWords, userInputs, inputValue, color, pending >>

\* variant of resetCrossword that forgets to clear the completed words
ResetKeepsCompleted ==
  /\ attached
  /\ userInputs' = << >>
  /\ currentWord' = 0
  /\ inputValue' = [c \in DOMAIN inputValue |-> ""]
  /\ color' = [c \in DOMAIN color |-> "#333"]
  /\ Quiet
  /\ last' = Event("reset", "")
  /\ completedBefore' = completedBefore \cup completedWords
  /\ shake' = {}
  /\ wordComplete' = {}
  /\ UNCHANGED << Static, completedWords, focus, pending >>

\* variant of resetCrossword that builds an empty grid again
ResetRebuildsGrid ==
  /\ attached
  /\ userInputs' = << >>
  /\ completedWords' = {}
  /\ currentWord' = 0
  /\ inputValue' = [c \in DOMAIN inputValue |-> ""]
  /\ color' = [c \in DOMAIN color |-> "#333"]
  /\ Quiet
  /\ last' = Event("reset", "")
  /\ completedBefore' = completedBefore \cup completedWords
  /\ shake' = {}
  /\ wordComplete' = {}
  /\ grid' = initializeGrid(gridSize, gridHeight)
  /\ UNCHANGED << tpl, words, gridSize, gridHeight, containers, attached,
                  diagnostics, focus, pending >>

\* resetCrossword with the confirm() dialog accepted
ResetConfirmed ==
  /\ attached
  /\ userInputs' = << >>
  /\ completedWords' = {}
  /\ currentWord' = 0
  /\ inputValue' = [c \in DOMAIN inputValue |-> ""]
  /\ color' = [c \in DOMAIN color |-> "#333"]
  /\ Quiet
  /\ last' = Event("reset", "")
  /\ completedBefore' = completedBefore \cup completedWords
  /\ shake' = {}
  /\ wordComplete' = {}
  /\ UNCHANGED << Static, focus, pending >>

\* resetCrossword with the confirm() dialog cancelled
ResetCancelled ==
  /\ attached
  /\ Quiet
  /\ last' = Event("resetCancelled", "")
  /\ UNCHANGED << Static, completedBefore, Classes, currentWord, completedWords, userInputs, inputValue,
                  color, focus, pending >>

\* the oldest 100ms timer of moveToNextCell fires: nextInput.focus()
TimerFire ==
  /\ pending # << >>
  /\ FocusOn(currentWord, Head(pending))
  /\ pending' = Tail(pending)
  /\ Quiet
  /\ last' = Event("timer", "")
  /\ UNCHANGED << Static, completedBefore, Classes, completedWords, userInputs, inputValue, color >>

\* variant of the 500ms callback that also empties the entry of its cell
ShakeTimerFireClearsEntry ==
  /\ \E c \in shake : /\ shake' = shake \ {c}
                       /\ userInputs' = SetInput(userInputs, c[1], c[2], "")
  /\ Quiet
  /\ last' = Event("shakeTimer", "")
  /\ UNCHANGED << Static, completedBefore, currentWord, completedWords,
                  inputValue, color, focus, pending, wordComplete >>

\* a 500ms timer of the input listener fires: classList.remove("shake").
\* An input has the class only while the timer of the entry that added it
\* is pending; a timer that finds the class gone changes nothing.
ShakeTimerFire ==
  /\ \E c \in shake : shake' = shake \ {c}
  /\ Quiet
  /\ last' = Event("shakeTimer", "")
  /\ UNCHANGED << Static, completedBefore, currentWord, completedWords, userInputs,
                  inputValue, color, focus, pending, wordComplete >>

\* a 1000ms timer of animateWordCompletion fires:
\* classList.remove("word-complete") on its cell
FlashTimerFire ==
  /\ \E c \in wordComplete : wordComplete' = wordComplete \ {c}
  /\ Quiet
  /\ last' = Event("flashTimer", "")
  /\ UNCHANGED << Static, completedBefore, currentWord, completedWords, userInputs,
                  inputValue, color, focus, pending, shake >>

Next ==
  \/ TypeLetter
  \/ ClearCell
  \/ Backspace
  \/ Tab
  \/ ShiftTab
  \/ Arrow
  \/ ClickCell
  \/ Blur
  \/ ClueSelect
  \/ ResetConfirmed
  \/ ResetCancelled
  \/ TimerFire

\* The event handlers and the focus timers. The callbacks that clear the
\* classes "shake" and "word-complete" write only those class lists, which
\* nothing else reads; they run in ClassTimerSpec.
Spec == Init /\ [][Next]_vars

\* the templates ClassTimerSpec runs on
ClassTimerTemplates == 2..6

ClassTimerInit == Init /\ tpl \in ClassTimerTemplates

\* the handlers and the focus timers after construction in any document
AnyDocumentSpec == AnyDocumentInit /\ [][Next]_vars

ClassTimerNext ==
  \/ Next
  \/ ShakeTimerFire
  \/ FlashTimerFire

\* the handlers, the focus timers and the class-clearing callbacks, in any
\* interleaving
ClassTimerSpec == ClassTimerInit /\ [][ClassTimerNext]_vars

\* the event loop runs every timer that is due
FairSpec == Spec /\ WF_vars(TimerFire)

TypeOK ==
  /\ tpl \in 1..Len(Templates)
  /\ currentWord \in 0..Len(words)
  /\ completedWords \subseteq { words[w].number : w \in 1..Len(words) }
  /\ DOMAIN userInputs \subseteq DOMAIN inputValue
  /\ focus \in DOMAIN inputValue \cup {NoCell}
  /\ Len(pending) <= MaxPending
  /\ completedBefore \subseteq { words[w].number : w \in 1..Len(words) }
  /\ shake \subseteq { c \in DOMAIN color : color[c] = "#e74c3c" }
  /\ wordComplete \subseteq (0..(gridSize - 1)) \X (0..(gridHeight - 1))
  /\ containers \subseteq Containers
  /\ attached \in BOOLEAN
  /\ evaluated \in BOOLEAN
  /\ Len(diagnostics) <= 1

\* ------------------------------------------------------------------------
\* Vocabulary of the properties
\* ------------------------------------------------------------------------

\* the elements of a sequence
Range(f) == { f[i] : i \in DOMAIN f }

\* the cells of the grid
GridCells == (0..(gridSize - 1)) \X (0..(gridHeight - 1))

\* word w is fully correct for the inputs ui: every cell of its span is a
\* grid cell that holds the grid's letter, and the letters read in span
\* order spell the word's text
WordCorrect(ui, w) ==
  \A k \in 1..Len(words[w].text) :
    LET c == Span(words[w])[k]
    IN /\ c \in GridCells
       /\ c \in DOMAIN ui
       /\ ui[c] = grid[c[2]][c[1]]
       /\ ui[c] = words[w].text[k]

\* the last handler was the input listener and the letter typed, put in
\* uppercase, is the grid's letter of the focused cell: the "correct" branch,
\* the one that runs the completion evaluation
EvaluationRan ==
  /\ last.op = "input"
  /\ focus # NoCell
  /\ toUpperCase(last.key) = grid[focus[2]][focus[1]]

\* the words that carry the number n
WordsNumbered(n) == { w \in 1..Len(words) : words[w].number = n }

\* how often n occurs in a sequence
Occurrences(f, n) == Cardinality({ i \in DOMAIN f : f[i] = n })

\* ------------------------------------------------------------------------
\* C1
\* ------------------------------------------------------------------------

\* C1: no step other than a confirmed reset removes a number from the
\* completed set, whatever is typed, deleted, focused or selected.
C1_CompletedMonotonic ==
  [][last'.op # "reset" => completedWords \subseteq completedWords']_vars

\* a completed word one of whose cells no longer holds the right letter
C1_Witness ==
  \E w \in 1..Len(words) :
    /\ words[w].number \in completedWords
    /\ ~WordCorrect(userInputs, w)
    /\ last.op # "reset"

\* ------------------------------------------------------------------------
\* C2
\* ------------------------------------------------------------------------

\* C2: right after a confirmed reset the input map and the completed set are
\* empty, there is no current word, and the grid, its dimensions and the
\* word list are what the constructor built from the template.
C2_ResetClears ==
  last.op = "reset" =>
    /\ DOMAIN userInputs = {}
    /\ completedWords = {}
    /\ currentWord = 0
    /\ words = Templates[tpl].words
    /\ gridSize = Templates[tpl].columns
    /\ gridHeight = Templates[tpl].rows
    /\ grid = placeWordsInGrid(Templates[tpl])

\* a reset taken while a focus timer of an earlier entry is still pending
C2_Witness ==
  /\ last.op = "reset"
  /\ pending # << >>
  /\ focus # NoCell

\* ------------------------------------------------------------------------
\* C3
\* ------------------------------------------------------------------------

\* C3: a handler reports a word as newly completed only if its number was
\* not in the completed set before, reports it once, and reports every word
\* that becomes fully correct in that step and was not completed before;
\* evaluating again on the inputs it leaves behind reports nothing.
C3_ReportedExactlyWhenFirstCorrect ==
  [][ /\ \A n \in Range(reported') :
           /\ n \notin completedWords
           /\ Occurrences(reported', n) = 1
           /\ \E w \in WordsNumbered(n) : WordCorrect(userInputs', w)
      /\ \A w \in 1..Len(words) :
           ( /\ ~WordCorrect(userInputs, w)
             /\ WordCorrect(userInputs', w)
             /\ words[w].number \notin completedWords )
           => words[w].number \in Range(reported')
      /\ checkWordCompletion(grid, words, userInputs', completedWords').reported = << >>
    ]_vars

\* ------------------------------------------------------------------------
\* C4
\* ------------------------------------------------------------------------

\* C4: an evaluation adds the number of a word exactly when the word is
\* fully correct on the inputs evaluated and its number was not in the set;
\* a step without an evaluation adds nothing.
C4_AddedIffCorrect ==
  [][ /\ EvaluationRan' =>
           \A w \in 1..Len(words) :
             (words[w].number \in completedWords' \ completedWords)
               <=> ( /\ WordCorrect(userInputs', w)
                     /\ words[w].number \notin completedWords )
      /\ ~EvaluationRan' => completedWords' \subseteq completedWords
    ]_vars

\* ------------------------------------------------------------------------
\* C5
\* ------------------------------------------------------------------------

\* the cell after position p of the current word's span
NextInSpan(p) == << WordX(words[currentWord], p + 1), WordY(words[currentWord], p + 1) >>

\* the focused cell lies in the current word's span and is not its last
\* cell, and the next cell of the span is a cell with an input
FocusBeforeEndOfCurrentWord ==
  /\ focus # NoCell
  /\ currentWord # 0
  /\ LET p == PositionIn(words[currentWord], focus[1], focus[2])
     IN /\ p # -1
        /\ p < Len(words[currentWord].text) - 1
        /\ NextInSpan(p) \in DOMAIN inputValue

\* C5: right after the correct letter was typed into a cell of the current
\* word that is not its last, the letter is stored for that cell and the
\* timer that moves focus to the next cell of the span has been started.
C5_CorrectEntryAdvances ==
  (EvaluationRan /\ FocusBeforeEndOfCurrentWord) =>
    /\ GetInput(userInputs, focus[1], focus[2]) = grid[focus[2]][focus[1]]
    /\ pending # << >>
    /\ pending[Len(pending)] =
         NextInSpan(PositionIn(words[currentWord], focus[1], focus[2]))

\* ------------------------------------------------------------------------
\* C6
\* ------------------------------------------------------------------------

\* the letter of the grid at the focused cell
FocusLetter == grid[focus[2]][focus[1]]

\* C6: typing a letter that, in uppercase, is not the grid's letter of the
\* focused cell stores that letter for the cell, colours the entry as
\* incorrect, starts no focus timer, leaves focus where it is and leaves the
\* completed set as it was.
C6_WrongLetterStoredOnly ==
  [][ (last'.op = "input" /\ toUpperCase(last'.key) # FocusLetter) =>
        /\ GetInput(userInputs', focus[1], focus[2]) = toUpperCase(last'.key)
        /\ color'[focus] = "#e74c3c"
        /\ focus' = focus
        /\ pending' = pending
        /\ completedWords' = completedWords
        /\ reported' = << >>
    ]_vars

\* a wrong letter typed into a cell of the current word that has a next cell
C6_Witness ==
  /\ last.op = "input"
  /\ focus # NoCell
  /\ toUpperCase(last.key) # FocusLetter
  /\ FocusBeforeEndOfCurrentWord

\* ------------------------------------------------------------------------
\* C7
\* ------------------------------------------------------------------------

\* the words whose span contains cell c
WordsCovering(c) == { w \in 1..Len(words) : c \in Range(Span(words[w])) }

\* the word a focus event on cell c selects when the current word is cw
WordAfterFocus(cw, c) ==
  IF cw # 0 /\ cw \in WordsCovering(c) THEN cw
  ELSE IF WordsCovering(c) = {} THEN cw
  ELSE CHOOSE w \in WordsCovering(c) : \A v \in WordsCovering(c) : w <= v

\* C7: whenever focus moves to a cell (by a click, a key or a timer, not by
\* a clue selection, which sets the current word itself), the current word
\* is kept if its span contains the cell and otherwise becomes the first
\* word in list order whose span contains it.
C7_FocusKeepsOrPicksFirst ==
  [][ (focus' # focus /\ focus' # NoCell /\ last'.op # "clue") =>
        currentWord' = WordAfterFocus(currentWord, focus') ]_vars

\* the shared start cell focused again while the down word is current
C7_Witness ==
  /\ tpl = 1
  /\ last.op = "click"
  /\ focus = << 0, 0 >>
  /\ currentWord = 2

\* ------------------------------------------------------------------------
\* C8
\* ------------------------------------------------------------------------

\* the focused cell is the last cell of the current word's span
FocusAtEndOfCurrentWord ==
  /\ focus # NoCell
  /\ currentWord # 0
  /\ PositionIn(words[currentWord], focus[1], focus[2])
       = Len(words[currentWord].text) - 1

\* C8: Tab, or a correct letter whose evaluation completed, on the last cell
\* of the current word starts no focus timer and changes neither focus nor
\* the current word; Tab raises nothing.
C8_AdvanceAtEndIsNoOp ==
  [][ ( /\ FocusAtEndOfCurrentWord
        /\ \/ last'.op = "Tab"
           \/ /\ last'.op = "input"
              /\ toUpperCase(last'.key) = FocusLetter
              /\ ~threw' ) =>
        /\ focus' = focus
        /\ pending' = pending
        /\ currentWord' = currentWord
        /\ (last'.op = "Tab" => ~threw')
    ]_vars

\* the correct last letter of a three-letter word has just been typed
C8_Witness ==
  /\ tpl = 7
  /\ EvaluationRan
  /\ ~threw
  /\ FocusAtEndOfCurrentWord

\* ------------------------------------------------------------------------
\* C9
\* ------------------------------------------------------------------------

\* the cell moveToPreviousCell is to focus from the focused cell
CellAfterRetreat ==
  IF currentWord = 0 THEN focus
  ELSE LET p == PositionIn(words[currentWord], focus[1], focus[2])
       IN IF p > 0 THEN Span(words[currentWord])[p] ELSE focus

\* C9: Shift+Tab, or Backspace on an empty cell with a current word, moves
\* focus to the previous cell of the current word's span when the focused
\* cell has an index above 0 in it, and otherwise changes nothing.
C9_RetreatWithinWord ==
  [][ ( /\ focus # NoCell
        /\ \/ last'.op = "ShiftTab"
           \/ last'.op = "Backspace" /\ inputValue[focus] = "" /\ currentWord # 0 ) =>
        /\ focus' = CellAfterRetreat
        /\ CellAfterRetreat = focus =>
             UNCHANGED << currentWord, completedWords, userInputs, inputValue,
                          color, pending >>
        /\ ~threw'
    ]_vars

\* Shift+Tab has brought focus to the middle cell of the three-letter word
C9_Witness ==
  /\ tpl = 7
  /\ last.op = "ShiftTab"
  /\ focus = << 1, 0 >>

\* ------------------------------------------------------------------------
\* C10
\* ------------------------------------------------------------------------

\* the cell one step from c in the direction of an arrow key
Neighbour(c, key) ==
  CASE key = "ArrowLeft"  -> << c[1] - 1, c[2] >>
    [] key = "ArrowRight" -> << c[1] + 1, c[2] >>
    [] key = "ArrowUp"    -> << c[1], c[2] - 1 >>
    [] key = "ArrowDown"  -> << c[1], c[2] + 1 >>

\* C10: an arrow key moves focus to the neighbour one step away when that
\* neighbour is an occupied cell of the grid and otherwise leaves focus
\* alone; the cell it reads is always a cell of the grid, and it raises
\* nothing.
C10_ArrowSingleStep ==
  [][ last'.op = "arrow" =>
        LET n == Neighbour(focus, last'.key)
        IN /\ focus' = IF n \in GridCells /\ grid[n[2]][n[1]] # NULL THEN n ELSE focus
           /\ ArrowTarget(gridSize, gridHeight, last'.key, focus[1], focus[2])
                \in GridCells
           /\ ~threw'
    ]_vars

\* ArrowRight on the left cell, a blocked cell away from the occupied right cell
C10_Witness ==
  /\ tpl = 2
  /\ last = Event("arrow", "ArrowRight")
  /\ focus = << 0, 0 >>

\* ------------------------------------------------------------------------
\* C11
\* ------------------------------------------------------------------------

\* every segment of every word lies inside the grid
AllInsideGrid ==
  \A w \in 1..Len(words) : Range(Span(words[w])) \subseteq GridCells

\* no two words disagree on the letter of a cell they share
NoConflictingOverlap ==
  \A v, w \in 1..Len(words) :
    \A j \in 1..Len(words[v].text), k \in 1..Len(words[w].text) :
      Span(words[v])[j] = Span(words[w])[k] => words[v].text[j] = words[w].text[k]

\* the template is well-formed
WellFormed == AllInsideGrid /\ NoConflictingOverlap

\* C11: for a well-formed template the grid holds, at every cell of every
\* word's span, the letter of the word's text for that cell, and null at
\* every cell that is in no word's span.
C11_GridMatchesWords ==
  WellFormed =>
    /\ \A w \in 1..Len(words) :
         \A k \in 1..Len(words[w].text) :
           LET c == Span(words[w])[k]
           IN grid[c[2]][c[1]] = words[w].text[k]
    /\ \A c \in GridCells :
         WordsCovering(c) = {} => grid[c[2]][c[1]] = NULL

\* a freshly built well-formed grid with two crossing words and a blocked cell
C11_Witness ==
  /\ WellFormed
  /\ last.op = "construct"
  /\ \E c \in GridCells : Cardinality(WordsCovering(c)) = 2
  /\ \E c \in GridCells : WordsCovering(c) = {}

\* ------------------------------------------------------------------------
\* C12
\* ------------------------------------------------------------------------

\* C12: a number that was in the completed set at a confirmed reset is out
\* of the set right after the reset, and when its word becomes fully correct
\* again while the number is out of the set, the number is added and the
\* word is reported as newly completed again.
C12_CompletedAgainAfterReset ==
  [][ \A w \in 1..Len(words) :
        LET n == words[w].number
        IN n \in completedBefore' =>
             /\ last'.op = "reset" => n \notin completedWords'
             /\ ( /\ ~WordCorrect(userInputs, w)
                  /\ WordCorrect(userInputs', w)
                  /\ n \notin completedWords )
                => (n \in completedWords' /\ n \in Range(reported'))
    ]_vars

\* a word that was completed before a reset has just been reported again
C12_Witness ==
  \E w \in 1..Len(words) :
    /\ words[w].number \in completedBefore
    /\ words[w].number \in Range(reported)
    /\ WordCorrect(userInputs, w)

\* ------------------------------------------------------------------------
\* C13
\* ------------------------------------------------------------------------

\* the cells that have an <input>: the occupied cells as rendered
RenderedInputs == DOMAIN inputValue

\* C13: no step after construction changes the grid's dimensions, the
\* grid's cells, which cells are occupied, or the word list.
C13_StructureNeverChanges ==
  [][ /\ gridSize' = gridSize
      /\ gridHeight' = gridHeight
      /\ grid' = grid
      /\ words' = words
      /\ RenderedInputs' = RenderedInputs
      /\ Occupied(grid', gridSize', gridHeight') = RenderedInputs'
    ]_vars

\* a reset after a completed word, with the structure as constructed
C13_Witness ==
  /\ last.op = "reset"
  /\ completedBefore # {}
  /\ grid = placeWordsInGrid(Templates[tpl])
  /\ RenderedInputs = Occupied(grid, gridSize, gridHeight)
  /\ RenderedInputs # {}

\* ------------------------------------------------------------------------
\* C14
\* ------------------------------------------------------------------------

\* C14: every key of userInputs is the coordinate of an occupied cell.
C14_InputsOnlyOnOccupied ==
  DOMAIN userInputs \subseteq Occupied(grid, gridSize, gridHeight)

\* every occupied cell has an entry, and the grid has an unoccupied cell
C14_Witness ==
  /\ DOMAIN userInputs = Occupied(grid, gridSize, gridHeight)
  /\ DOMAIN userInputs # {}
  /\ Occupied(grid, gridSize, gridHeight) # GridCells

\* ------------------------------------------------------------------------
\* C15
\* ------------------------------------------------------------------------

\* the step is the run of a delayed callback
CallbackStep == last'.op \in {"timer", "shakeTimer", "flashTimer"}

\* C15: a delayed callback (the 100ms focus, the 500ms shake clear, the
\* 1000ms flash clear), whatever was handled since it was scheduled, leaves
\* every entry of userInputs and every member of completedWords as it was.
C15_CallbacksKeepInputsAndCompleted ==
  [][ CallbackStep => /\ userInputs' = userInputs
                      /\ completedWords' = completedWords ]_vars

\* a focus callback has run after further typing, while a shake callback
\* and a flash callback were still to run
C15_Witness ==
  /\ last.op = "timer"
  /\ shake # {}
  /\ wordComplete # {}
  /\ completedWords # {}

\* ------------------------------------------------------------------------
\* C16
\* ------------------------------------------------------------------------

\* C16: for a template in which some word runs off the grid, the grid is
\* the one construction built from the in-grid cells, and no handler raises
\* a runtime error (so none is cut short).
C16_OffGridWordNeverThrows ==
  ~AllInsideGrid =>
    /\ grid = placeWordsInGrid(Templates[tpl])
    /\ ~threw

\* ------------------------------------------------------------------------
\* C17
\* ------------------------------------------------------------------------

\* C17: when a container is absent at construction, exactly one diagnostic
\* is emitted and none of the state is initialized: no grid is built, no
\* words are loaded, no listener is attached.
C17_MissingContainerInitializesNothing ==
  containers # Containers =>
    /\ Len(diagnostics) = 1
    /\ grid = << >>
    /\ words = << >>
    /\ ~attached

\* ------------------------------------------------------------------------
\* C18
\* ------------------------------------------------------------------------

\* the step runs the input listener of the focused cell: the one handler
\* that writes an entry of userInputs
InputListenerStep ==
  \/ last'.op \in {"input", "clear"}
  \/ last'.op = "Backspace" /\ focus # NoCell /\ inputValue[focus] # ""

AdvanceOrRetreatMoved ==
  /\ last'.op \in {"timer", "ShiftTab", "Backspace"}
  /\ focus' # focus

\* C19: when an advance or a retreat moves focus to the adjacent cell of the
\* span, the focus event on the new cell included, currentWord is the same
\* word as before.
C19_AdvanceRetreatKeepCurrentWord ==
  [][ AdvanceOrRetreatMoved => currentWord' = currentWord ]_vars

\* ------------------------------------------------------------------------
\* C20
\* ------------------------------------------------------------------------

\* the cell an advance from the focused cell is to focus: the next cell of
\* the current word's span, NoCell when there is none
CellAfterAdvance ==
  IF FocusBeforeEndOfCurrentWord
    THEN NextInSpan(PositionIn(words[currentWord], focus[1], focus[2]))
    ELSE NoCell

\* C20: Tab starts the focus move of an advance from the focused cell and
\* Shift+Tab makes the focus move of a retreat from it, whatever userInputs
\* holds for the cell; neither changes userInputs or completedWords.
C20_TabAdvancesShiftTabRetreats ==
  [][ /\ last'.op = "Tab" =>
           /\ pending' = IF CellAfterAdvance = NoCell
                           THEN pending
                           ELSE Append(pending, CellAfterAdvance)
           /\ UNCHANGED << focus, currentWord, userInputs, completedWords >>
      /\ last'.op = "ShiftTab" =>
           /\ focus' = CellAfterRetreat
           /\ UNCHANGED << currentWord, pending, userInputs, completedWords >>
    ]_vars

\* Tab has started an advance from a cell that holds an incorrect letter
C20_Witness ==
  /\ last.op = "Tab"
  /\ pending # << >>
  /\ focus # NoCell
  /\ GetInput(userInputs, focus[1], focus[2]) \notin {"", grid[focus[2]][focus[1]]}

\* ------------------------------------------------------------------------
\* C21
\* ------------------------------------------------------------------------

\* C21: Backspace on a cell whose displayed value is empty makes the focus
\* move of a retreat from that cell; Backspace on a cell with a value
\* empties the display and leaves focus, and the focus timers, alone.
C21_BackspaceRetreatsOnlyWhenEmpty ==
  [][ (last'.op = "Backspace" /\ focus # NoCell) =>
        IF inputValue[focus] = ""
          THEN /\ focus' = CellAfterRetreat
               /\ UNCHANGED << userInputs, inputValue >>
          ELSE /\ focus' = focus
               /\ pending' = pending
               /\ inputValue'[focus] = ""
    ]_vars

\* in the three-letter word, the middle cell was emptied and Backspace then
\* brought focus back to the first cell
C21_Witness ==
  /\ tpl = 7
  /\ last.op = "Backspace"
  /\ focus = << 0, 0 >>
  /\ currentWord # 0
  /\ DOMAIN userInputs = {<< 1, 0 >>}
  /\ userInputs[<< 1, 0 >>] = ""

\* ------------------------------------------------------------------------
\* C22
\* ------------------------------------------------------------------------

\* C22: for a well-formed template, whatever the case of its texts, every
\* cell of a word's span holds the uppercase form of the word's letter (so
\* the letters a player types, put in uppercase on entry, can match it).
C22_GridHoldsUppercase ==
  (attached /\ WellFormed) =>
    \A w \in 1..Len(words) : \A k \in 1..Len(words[w].text) :
      LET c == Span(words[w])[k]
      IN grid[c[2]][c[1]] = toUpperCase(words[w].text[k])

\* ------------------------------------------------------------------------
\* C23
\* ------------------------------------------------------------------------

\* the first word in list order that carries the number n
FirstNumbered(n) == CHOOSE w \in WordsNumbered(n) : \A v \in WordsNumbered(n) : w <= v

\* the start cell of word w
StartCell(w) == << words[w].startX, words[w].startY >>

\* C23: selecting the clue with number n makes the first word with that
\* number the current word, focus event included, and moves focus to the
\* word's start cell (a start cell without an input leaves focus where it
\* is); when no word has the number, currentWord and focus are unchanged.
\* userInputs and completedWords are unchanged in both cases.
C23_ClueSelectsWordAndStart ==
  [][ \A n \in 1..(MaxClueNumber + 1) :
        last' = Event("clue", ToString(n)) =>
          /\ UNCHANGED << userInputs, completedWords >>
          /\ IF WordsNumbered(n) = {}
               THEN UNCHANGED << currentWord, focus >>
               ELSE /\ currentWord' = FirstNumbered(n)
                    /\ focus' = IF StartCell(FirstNumbered(n)) \in DOMAIN inputValue
                                  THEN StartCell(FirstNumbered(n))
                                  ELSE focus
    ]_vars

\* the clue of the down word was selected while the across word, listed
\* first and sharing the start cell, was current and focus was elsewhere
C23_Witness ==
  /\ tpl = 1
  /\ last = Event("clue", "2")
  /\ currentWord = 2
  /\ focus = << 0, 0 >>
  /\ userInputs # << >>

\* ------------------------------------------------------------------------
\* C24
\* ------------------------------------------------------------------------

\* C24: for a well-formed template, every word whose cells all hold their
\* grid letters in userInputs has its number in completedWords.
C24_CorrectWordsAreCompleted ==
  (attached /\ WellFormed) =>
    \A w \in 1..Len(words) :
      WordCorrect(userInputs, w) => words[w].number \in completedWords

\* one letter has just completed two crossing words at once
C24_Witness ==
  /\ WellFormed
  /\ Len(reported) = 2
  /\ \A w \in 1..Len(words) : WordCorrect(userInputs, w)

\* ------------------------------------------------------------------------
\* C25
\* ------------------------------------------------------------------------

\* C25: for a well-formed template, whenever an input has focus and a
\* current word is set, the focused cell lies in the current word's span.
C25_FocusInsideCurrentWord ==
  (attached /\ WellFormed /\ focus # NoCell /\ currentWord # 0) =>
    PositionIn(words[currentWord], focus[1], focus[2]) >= 0

\* after a reset, a delayed focus callback has set the current word again,
\* on the grid with two crossing words
C25_Witness ==
  /\ tpl = 1
  /\ last.op = "timer"
  /\ completedBefore # {}
  /\ DOMAIN userInputs = {}
  /\ focus # NoCell
  /\ currentWord # 0

\* ------------------------------------------------------------------------
\* C26
\* ------------------------------------------------------------------------

\* C26: a delayed focus callback that fires while no word is current (a
\* callback is scheduled only with a current word, so a confirmed reset has
\* come in between) leaves currentWord none and focus where it is.
C26_StaleCallbackAfterResetDoesNothing ==
  [][ (last'.op = "timer" /\ currentWord = 0) =>
        (currentWord' = 0 /\ focus' = focus) ]_vars

\* ------------------------------------------------------------------------
\* C27
\* ------------------------------------------------------------------------

\* words v and w, v listed before w, disagree on the letter of the grid
\* cell that is letter j of v and letter k of w
Disagree(v, j, w, k) ==
  /\ v < w
  /\ Span(words[v])[j] = Span(words[w])[k]
  /\ Span(words[v])[j] \in GridCells
  /\ words[v].text[j] # words[w].text[k]

\* C27: where two words disagree on the letter of a shared cell, the grid
\* holds the letter of the word listed later, and the number of the word
\* listed earlier is never in completedWords.
C27_LaterWordWinsConflict ==
  attached =>
    \A v, w \in 1..Len(words) :
      \A j \in 1..Len(words[v].text), k \in 1..Len(words[w].text) :
        Disagree(v, j, w, k) =>
          /\ LET c == Span(words[w])[k] IN grid[c[2]][c[1]] = words[w].text[k]
          /\ words[v].number \notin completedWords

\* the later word is completed, and the earlier word is not although each
\* of its cells holds the grid's letter
C27_Witness ==
  \E v, w \in 1..Len(words) :
    /\ \E j \in 1..Len(words[v].text), k \in 1..Len(words[w].text) :
         Disagree(v, j, w, k)
    /\ words[w].number \in completedWords
    /\ WordCorrect(userInputs, w)
    /\ \A j \in 1..Len(words[v].text) :
         LET c == Span(words[v])[j]
         IN GetInput(userInputs, c[1], c[2]) = grid[c[2]][c[1]]

====
